---- MODULE Spec2Model ----
(***************************************************************************)
(* Model of scripts/fetch_latest_commits.py: the URL builder, the retrying *)
(* fetcher (fetch_url), the two persistence writes and the run driver      *)
(* (main).  Python strings are sequences of one-character strings, so that *)
(* rstrip and concatenation are computed rather than assumed.              *)
(***************************************************************************)
EXTENDS Integers, Sequences, FiniteSets, TLC

VARIABLES
    args,           \* parsed command line (argparse namespace)
    token,          \* os.environ.get("ARTIFACTORY_TOKEN")
    pc,             \* position of the process in main / fetch_url
    killed,         \* the process was terminated from outside at pc
    headers,        \* request headers built by main
    auth,           \* basic-auth pair built by main
    base_url,       \* args.base_url.rstrip("/")
    warnings,       \* number of missing-auth warnings printed to stderr
    errors,         \* main's error list
    success_count,  \* main's success counter
    bi, pi,         \* loop positions in args.builds / args.platforms (1-based)
    target_url,     \* URL of the current job
    attempt,        \* fetch_url's attempt counter
    result,         \* value returned by the last fetch_url call
    fs,             \* files under the output root: path -> content
    dirs,           \* directories that exist (root is <<>>)
    exit_code,      \* process exit status once it has terminated
    summary,        \* the printed summary line (counts), or None
    getlog,         \* session.get calls of the current fetch_url call
    sleeps,         \* time.sleep durations of the current fetch_url call
    clock,          \* wall clock read by datetime.now()
    joblog,         \* jobs that reached a terminal state, in order
    started,        \* jobs for which the driver called fetch_url, in order
    fs0             \* the files present when the run started

vars == <<args, token, pc, killed, headers, auth, base_url, warnings, errors,
          success_count, bi, pi, target_url, attempt, result, fs, dirs,
          exit_code, summary, getlog, sleeps, clock, joblog, started, fs0>>

---------------------------------------------------------------------------
(* Bounds of the model *)
MaxRetries == 2
MaxSlashes == 2

---------------------------------------------------------------------------
(* Python values *)

\* Python's None; every string of the model is a sequence of one-character
\* strings, so None differs from every string, the empty string included.
None == <<"None">>

\* fetch_url returns status None on exhaustion; status codes are integers,
\* none of which is 0.
StatusNone == 0

\* BACKOFF_FACTOR = 1.5 = BACKOFF_NUM / BACKOFF_DEN
BACKOFF_NUM == 3
BACKOFF_DEN == 2

\* bool(x) for a string-or-None
Truthy(x) == x # None /\ x # <<>>

RECURSIVE Pow(_, _)
Pow(b, n) == IF n <= 0 THEN 1 ELSE b * Pow(b, n - 1)

\* a backoff computed from the counter before it is advanced
Backoff_BeforeIncrement(k) == <<Pow(BACKOFF_NUM, k - 1), Pow(BACKOFF_DEN, k - 1)>>

\* BACKOFF_FACTOR ** attempt, as the fraction <<numerator, denominator>>
Backoff(k) == <<Pow(BACKOFF_NUM, k), Pow(BACKOFF_DEN, k)>>

\* a strip that removes one trailing slash only
rstrip_One(s) ==
    IF s # <<>> /\ s[Len(s)] = "/" THEN SubSeq(s, 1, Len(s) - 1) ELSE s

\* str.rstrip('/')
RECURSIVE rstrip(_)
rstrip(s) ==
    IF s # <<>> /\ s[Len(s)] = "/" THEN rstrip(SubSeq(s, 1, Len(s) - 1)) ELSE s

FileName == <<"/", "l", "a", "t", "e", "s", "t", "_", "c", "o", "m", "m",
              "i", "t", "s", ".", "t", "x", "t">>

build_target_url(base, build, platform) ==
    rstrip(base) \o <<"/">> \o build \o <<"/">> \o platform \o FileName

---------------------------------------------------------------------------
(* File system under the output root.  A path is <<build, platform, name>>; *)
(* the errors file lives directly under the root.                          *)

LocalPath(build, plat) == <<build, plat, "latest_commits.txt">>
MetaPath(build, plat) == <<build, plat, "meta.json">>
ErrPath == << <<>>, <<>>, "fetch_errors.json" >>

RootDir == <<>>
JobDir(build, plat) == <<build, plat>>

\* path.parent.mkdir(parents=True, exist_ok=True)
MkdirParents(d, build, plat) == d \cup {RootDir, <<build>>, JobDir(build, plat)}

\* f with path p bound to content c (Path.write_text creates or truncates)
WriteText(f, p, c) == [q \in (DOMAIN f) \cup {p} |-> IF q = p THEN c ELSE f[q]]

Exists(f, p) == p \in DOMAIN f

\* names of the files present in a job directory
FilesIn(f, build, plat) == {p[3] : p \in {q \in DOMAIN f : q[1] = build /\ q[2] = plat}}

EmptyFS == [p \in {} |-> <<>>]

MetaRecord(build, plat, now, url) ==
    [build |-> build, platform |-> plat, fetched_at |-> now, source_url |-> url]

---------------------------------------------------------------------------
(* Inputs: command lines, environment, server behaviour, earlier runs *)

B1 == <<"1">>
B2 == <<"2">>
PW == <<"w">>
PL == <<"l">>

BuildLists == {<<B1>>, <<B1, B2>>, <<B1, B1>>}
PlatformLists == {<<PW>>, <<PW, PL>>}
BaseUrls == {<<"h">>, <<"h", "/">>}
Retries == -1 .. MaxRetries
Tokens == {None, <<>>, <<"t">>}
Users == {None, <<>>, <<"u">>}
Passwords == {None, <<"p">>}

ArgSets ==
    [base_url : BaseUrls, builds : BuildLists, platforms : PlatformLists,
     retries : Retries, user : Users, password : Passwords]

\* The credentials and the base URL are varied on one-job command lines, the
\* job lists and the retry limit on command lines with Basic credentials.
OneJob(a) == a.builds = <<B1>> /\ a.platforms = <<PW>> /\ a.retries = 2
PlainRun(a, tok) ==
    /\ tok = None /\ a.user = <<"u">> /\ a.password = <<"p">>
    /\ a.base_url = <<"h", "/">>

\* What one session.get call can yield: a response, or a
\* requests.exceptions.RequestException.
Response(status, text) ==
    [exc |-> FALSE, status_code |-> status, text |-> text, headers |-> <<"H">>]
RequestException ==
    [exc |-> TRUE, status_code |-> StatusNone, text |-> None, headers |-> None]
Bodies == {<<>>, <<"a">>}
Outcomes ==
    {Response(200, b) : b \in Bodies}
        \cup {Response(401, <<>>), Response(403, <<>>), Response(500, <<>>)}
        \cup {RequestException}

Transient(o) == o.exc \/ o.status_code \notin {200, 401, 403}

\* The jobs of a command line, as positions <<i, j>> in builds x platforms
JobIdx(a) == (1 .. Len(a.builds)) \X (1 .. Len(a.platforms))
NumJobs(a) == Len(a.builds) * Len(a.platforms)

\* Output trees an earlier run of the same command line leaves behind
OldBody == <<"o">>
OldErrors(a) ==
    LET u == build_target_url(a.base_url, a.builds[1], a.platforms[1])
    IN  << [build |-> a.builds[1], platform |-> a.platforms[1], url |-> u,
            error |-> <<"FAILED to fetch", u, a.retries>>] >>
OldPaths(a) ==
    UNION {{LocalPath(a.builds[j[1]], a.platforms[j[2]]),
            MetaPath(a.builds[j[1]], a.platforms[j[2]])} : j \in JobIdx(a)}
OldTree(a, withErrors) ==
    [p \in OldPaths(a) \cup (IF withErrors THEN {ErrPath} ELSE {}) |->
        IF p = ErrPath THEN OldErrors(a)
        ELSE IF p[3] = "meta.json"
             THEN MetaRecord(p[1], p[2], 0,
                             build_target_url(a.base_url, p[1], p[2]))
             ELSE OldBody]
OldDirs(a) ==
    {RootDir} \cup {<<a.builds[j[1]]>> : j \in JobIdx(a)}
              \cup {JobDir(a.builds[j[1]], a.platforms[j[2]]) : j \in JobIdx(a)}
PriorStates(a) ==
    { [fs |-> EmptyFS, dirs |-> {}],                 \* first run, no root yet
      [fs |-> EmptyFS, dirs |-> {RootDir}],          \* root made by hand
      [fs |-> OldTree(a, FALSE), dirs |-> OldDirs(a)],
      [fs |-> OldTree(a, TRUE), dirs |-> OldDirs(a)] }

\* the exit status of the process: none while it runs, <<code>> afterwards
NotExited == <<>>
Exited(code) == <<code>>

NoResult == [content |-> None, status |-> StatusNone, headers |-> None]
NoHeaders == [h \in {} |-> <<>>]

---------------------------------------------------------------------------
(* main, up to the job loop: lines 93-113 *)

Init ==
    /\ args \in ArgSets
    /\ token \in Tokens
    /\ OneJob(args) \/ PlainRun(args, token)
    /\ \E s \in PriorStates(args) : fs = s.fs /\ dirs = s.dirs /\ fs0 = s.fs
    /\ pc = "start"
    /\ killed = FALSE
    /\ headers = NoHeaders
    /\ auth = None
    /\ base_url = <<>>
    /\ warnings = 0
    /\ errors = <<>>
    /\ success_count = 0
    /\ bi = 1
    /\ pi = 1
    /\ target_url = <<>>
    /\ attempt = 0
    /\ result = NoResult
    /\ exit_code = NotExited
    /\ summary = None
    /\ getlog = <<>>
    /\ sleeps = <<>>
    /\ clock = 1
    /\ joblog = <<>>
    /\ started = <<>>

ResolveHeaders(tok) ==
    IF Truthy(tok) THEN [h \in {"Authorization"} |-> <<"Bearer", tok>>]
    ELSE NoHeaders

\* a resolution that prefers the user/password pair to the token
ResolveAuth_BasicFirst(tok, user, password) ==
    IF Truthy(user) /\ Truthy(password) THEN <<user, password>> ELSE None

ResolveAuth(tok, user, password) ==
    IF Truthy(tok) THEN None
    ELSE IF Truthy(user) /\ Truthy(password) THEN <<user, password>>
    ELSE None

WarnsMissingAuth(tok, user, password) ==
    ~Truthy(tok) /\ (~Truthy(user) \/ ~Truthy(password))

Startup ==
    /\ pc = "start" /\ ~killed
    /\ warnings' = IF WarnsMissingAuth(token, args.user, args.password)
                   THEN warnings + 1 ELSE warnings
    /\ headers' = ResolveHeaders(token)
    /\ auth' = ResolveAuth(token, args.user, args.password)
    /\ base_url' = rstrip(args.base_url)
    /\ errors' = <<>>
    /\ success_count' = 0
    /\ bi' = 1 /\ pi' = 1
    /\ pc' = "loop"
    /\ UNCHANGED <<args, token, killed, target_url, attempt, result, fs, dirs,
                   exit_code, summary, getlog, sleeps, clock, joblog, started,
                   fs0>>

---------------------------------------------------------------------------
(* The job loop: lines 115-135 *)

CurBuild == args.builds[bi]
CurPlat == args.platforms[pi]

\* loops nested the other way round: platforms outer, builds inner
NextPos_PlatformsOuter(i, j) ==
    IF i < Len(args.builds) THEN <<i + 1, j>>
    ELSE IF j < Len(args.platforms) THEN <<1, j + 1>>
    ELSE <<Len(args.builds) + 1, 1>>

\* the nested for loops: the position after <<i, j>>
NextPos(i, j) ==
    IF j < Len(args.platforms) THEN <<i, j + 1>> ELSE <<i + 1, 1>>

LoopDone == bi > Len(args.builds)

\* lines 117-120: build the URL, announce the job, enter fetch_url
LoopNext ==
    /\ pc = "loop" /\ ~killed
    /\ ~LoopDone
    /\ target_url' = build_target_url(base_url, CurBuild, CurPlat)
    /\ started' = Append(started, <<bi, pi>>)
    /\ attempt' = 0
    /\ getlog' = <<>>
    /\ sleeps' = <<>>
    /\ pc' = "fetch"
    /\ UNCHANGED <<args, token, killed, headers, auth, base_url, warnings,
                   errors, success_count, bi, pi, result, fs, dirs, exit_code,
                   summary, clock, joblog, fs0>>

\* a loop that runs once too often
LoopCond_OffByOne(att, retries) == att <= retries

\* fetch_url's loop condition: line 65
LoopCond(att, retries) == att < retries

\* fetch_url, one iteration of the while loop: lines 65-81
\* a fetcher that takes 401/403 for a transient failure
FetchReturns_Only200(o) == ~o.exc /\ o.status_code = 200

FetchReturns(o) == ~o.exc /\ o.status_code \in {200, 401, 403}

FetchResult(o) ==
    IF o.status_code = 200
    THEN [content |-> o.text, status |-> o.status_code, headers |-> o.headers]
    ELSE [content |-> None, status |-> o.status_code, headers |-> o.headers]

FetchAttempt ==
    /\ pc = "fetch" /\ ~killed
    /\ LoopCond(attempt, args.retries)
    /\ \E o \in Outcomes :
        /\ getlog' = Append(getlog, [out |-> o, auth |-> auth,
                                     headers |-> headers, url |-> target_url])
        /\ IF FetchReturns(o)
           THEN /\ result' = FetchResult(o)
                /\ pc' = "returned"
                /\ UNCHANGED <<attempt, sleeps>>
           ELSE /\ attempt' = attempt + 1
                /\ sleeps' = Append(sleeps, Backoff(attempt + 1))
                /\ pc' = "fetch"
                /\ UNCHANGED result
    /\ UNCHANGED <<args, token, killed, headers, auth, base_url, warnings,
                   errors, success_count, bi, pi, target_url, fs, dirs,
                   exit_code, summary, clock, joblog, started, fs0>>

\* fetch_url, loop exit: line 82
FetchExhausted ==
    /\ pc = "fetch" /\ ~killed
    /\ ~LoopCond(attempt, args.retries)
    /\ result' = [content |-> None, status |-> StatusNone, headers |-> None]
    /\ pc' = "returned"
    /\ UNCHANGED <<args, token, killed, headers, auth, base_url, warnings,
                   errors, success_count, bi, pi, target_url, attempt, fs,
                   dirs, exit_code, summary, getlog, sleeps, clock, joblog,
                   started, fs0>>

\* a driver that knows 401 only and reports 403 as exhausted retries
ErrorMessage_Only401(status, url, retries) ==
    IF status = 401 THEN <<"AUTH ERROR", status, "fetching", url>>
    ELSE <<"FAILED to fetch", url, "after", retries, "attempts">>

\* the f-string messages of lines 123 and 127, as their parts
ErrorMessage(status, url, retries) ==
    IF status \in {401, 403} THEN <<"AUTH ERROR", status, "fetching", url>>
    ELSE <<"FAILED to fetch", url, "after", retries, "attempts">>

\* a record with build and platform the wrong way round
ErrorRecord_Swapped(build, plat, url, msg) ==
    [build |-> plat, platform |-> build, url |-> url, error |-> msg]

ErrorRecord(build, plat, url, msg) ==
    [build |-> build, platform |-> plat, url |-> url, error |-> msg]

\* a driver that takes every falsy content, the empty body too, for a failure
FetchFailed_Falsy(r) == ~Truthy(r.content)

\* line 121: `if content is None`
FetchFailed(r) == r.content = None

\* a driver that leaves the platform loop at the first failed job
AfterFailure_Break(i, j) == <<i + 1, 1>>

\* line 130: `continue` goes on with the next platform
AfterFailure(i, j) == NextPos(i, j)

\* a job that reached its terminal state: what its fetch returned and
\* whether the driver persisted it
JobEntry(build, plat, r, persisted) ==
    [build |-> build, platform |-> plat, status |-> r.status,
     persisted |-> persisted]

\* a driver that clears the directory of a job that failed
JobFailed_RemovesStale ==
    /\ pc = "returned" /\ ~killed
    /\ FetchFailed(result)
    /\ errors' = Append(errors,
                    ErrorRecord(CurBuild, CurPlat, target_url,
                        ErrorMessage(result.status, target_url, args.retries)))
    /\ joblog' = Append(joblog, JobEntry(CurBuild, CurPlat, result, FALSE))
    /\ fs' = [q \in {r \in DOMAIN fs : ~(r[1] = CurBuild /\ r[2] = CurPlat)}
                |-> fs[q]]
    /\ bi' = AfterFailure(bi, pi)[1]
    /\ pi' = AfterFailure(bi, pi)[2]
    /\ pc' = "loop"
    /\ UNCHANGED <<args, token, killed, headers, auth, base_url, warnings,
                   success_count, target_url, attempt, result, dirs,
                   exit_code, summary, getlog, sleeps, clock, started, fs0>>

\* lines 121-130: the fetch failed, record it and go on with the next job
JobFailed ==
    /\ pc = "returned" /\ ~killed
    /\ FetchFailed(result)
    /\ errors' = Append(errors,
                    ErrorRecord(CurBuild, CurPlat, target_url,
                        ErrorMessage(result.status, target_url, args.retries)))
    /\ joblog' = Append(joblog, JobEntry(CurBuild, CurPlat, result, FALSE))
    /\ bi' = AfterFailure(bi, pi)[1]
    /\ pi' = AfterFailure(bi, pi)[2]
    /\ pc' = "loop"
    /\ UNCHANGED <<args, token, killed, headers, auth, base_url, warnings,
                   success_count, target_url, attempt, result, fs, dirs,
                   exit_code, summary, getlog, sleeps, clock, started, fs0>>

\* a write_file that is handed the path of meta.json
write_file_MetaPath(f, build, plat, content) ==
    WriteText(f, MetaPath(build, plat), content)

\* a write_file that keeps a body that is already there
write_file_KeepExisting(f, build, plat, content) ==
    IF Exists(f, LocalPath(build, plat)) THEN f
    ELSE WriteText(f, LocalPath(build, plat), content)

\* write_file: lines 49-51, called on line 132
write_file(f, build, plat, content) == WriteText(f, LocalPath(build, plat), content)

WriteFile ==
    /\ pc = "returned" /\ ~killed
    /\ ~FetchFailed(result)
    /\ dirs' = MkdirParents(dirs, CurBuild, CurPlat)
    /\ fs' = write_file(fs, CurBuild, CurPlat, result.content)
    /\ pc' = "wrote_file"
    /\ UNCHANGED <<args, token, killed, headers, auth, base_url, warnings,
                   errors, success_count, bi, pi, target_url, attempt, result,
                   exit_code, summary, getlog, sleeps, clock, joblog, started,
                   fs0>>

\* a write_meta that puts meta.json beside the build, not beside the body
write_meta_WrongDir(f, build, plat, source_url, now) ==
    WriteText(f, <<build, <<>>, "meta.json">>,
              MetaRecord(build, plat, now, source_url))

\* write_meta: lines 53-61, called on line 133; then lines 134-135
write_meta(f, build, plat, source_url, now) ==
    WriteText(f, MetaPath(build, plat), MetaRecord(build, plat, now, source_url))

\* a driver that persists the job but forgets to count it
WriteMeta_NoCount ==
    /\ pc = "wrote_file" /\ ~killed
    /\ fs' = write_meta(fs, CurBuild, CurPlat, target_url, clock)
    /\ clock' = clock + 1
    /\ joblog' = Append(joblog, JobEntry(CurBuild, CurPlat, result, TRUE))
    /\ bi' = NextPos(bi, pi)[1]
    /\ pi' = NextPos(bi, pi)[2]
    /\ pc' = "loop"
    /\ UNCHANGED <<args, token, killed, headers, auth, base_url, warnings,
                   errors, success_count, target_url, attempt, result, dirs,
                   exit_code, summary, getlog, sleeps, started, fs0>>

WriteMeta ==
    /\ pc = "wrote_file" /\ ~killed
    /\ fs' = write_meta(fs, CurBuild, CurPlat, target_url, clock)
    /\ clock' = clock + 1
    /\ success_count' = success_count + 1
    /\ joblog' = Append(joblog, JobEntry(CurBuild, CurPlat, result, TRUE))
    /\ bi' = NextPos(bi, pi)[1]
    /\ pi' = NextPos(bi, pi)[2]
    /\ pc' = "loop"
    /\ UNCHANGED <<args, token, killed, headers, auth, base_url, warnings,
                   errors, target_url, attempt, result, dirs, exit_code,
                   summary, getlog, sleeps, started, fs0>>

---------------------------------------------------------------------------
(* After the loop: lines 137-144 *)

\* err_path.write_text does not create the parent directory: it raises
\* FileNotFoundError when the output root does not exist.
CanWriteErrors(d) == RootDir \in d

\* a driver that writes the errors file whether or not there are errors
Finish_AlwaysWrites ==
    /\ pc = "loop" /\ ~killed
    /\ LoopDone
    /\ summary' = <<success_count, Len(errors)>>
    /\ IF CanWriteErrors(dirs)
       THEN /\ fs' = WriteText(fs, ErrPath, errors)
            /\ exit_code' = IF errors # <<>> THEN Exited(2) ELSE Exited(0)
            /\ pc' = "done"
       ELSE /\ exit_code' = Exited(1)
            /\ pc' = "crashed"
            /\ UNCHANGED fs
    /\ UNCHANGED <<args, token, killed, headers, auth, base_url, warnings,
                   errors, success_count, bi, pi, target_url, attempt, result,
                   dirs, getlog, sleeps, clock, joblog, started, fs0>>

Finish ==
    /\ pc = "loop" /\ ~killed
    /\ LoopDone
    /\ summary' = <<success_count, Len(errors)>>
    /\ IF errors # <<>>
       THEN IF CanWriteErrors(dirs)
            THEN /\ fs' = WriteText(fs, ErrPath, errors)
                 /\ exit_code' = Exited(2)
                 /\ pc' = "done"
            ELSE /\ exit_code' = Exited(1)         \* uncaught exception, traceback
                 /\ pc' = "crashed"
                 /\ UNCHANGED fs
       ELSE /\ exit_code' = Exited(0)
            /\ pc' = "done"
            /\ UNCHANGED fs
    /\ UNCHANGED <<args, token, killed, headers, auth, base_url, warnings,
                   errors, success_count, bi, pi, target_url, attempt, result,
                   dirs, getlog, sleeps, clock, joblog, started, fs0>>

\* The process is terminated from outside (signal, power loss) wherever it is.
Kill ==
    /\ ~killed
    /\ pc \notin {"done", "crashed"}
    /\ killed' = TRUE
    /\ UNCHANGED <<args, token, pc, headers, auth, base_url, warnings, errors,
                   success_count, bi, pi, target_url, attempt, result, fs, dirs,
                   exit_code, summary, getlog, sleeps, clock, joblog, started,
                   fs0>>

Step ==
    \/ Startup
    \/ LoopNext
    \/ FetchAttempt
    \/ FetchExhausted
    \/ JobFailed
    \/ WriteFile
    \/ WriteMeta
    \/ Finish

Next == Step \/ Kill

Spec == Init /\ [][Next]_vars

\* The scheduler runs the process as long as it is not terminated.
LiveSpec == Spec /\ WF_vars(Step)

---------------------------------------------------------------------------
(* Properties of fetch_url *)

Max(a, b) == IF a >= b THEN a ELSE b

LastGet == getlog[Len(getlog)].out

AllTransient == \A k \in DOMAIN getlog : Transient(getlog[k].out)

IsAuthResponse(o) == ~o.exc /\ o.status_code \in {401, 403}

\* C1 as stated: when every attempt of a fetch_url call is transient, the
\* call makes exactly `retries` session.get calls and returns
\* (None, None, None).
C1_RetryBoundAsStated ==
    (pc = "returned" /\ AllTransient) =>
        /\ Len(getlog) = args.retries
        /\ result = NoResult

\* C1, amended: when every attempt of a fetch_url call is transient, the call
\* makes exactly max(retries, 0) session.get calls (exactly `retries` for
\* every retries >= 0) and returns (None, None, None).
C1_RetryBound ==
    (pc = "returned" /\ AllTransient) =>
        /\ Len(getlog) = Max(args.retries, 0)
        /\ result = NoResult

C1_Witness ==
    /\ pc = "returned" /\ AllTransient
    /\ args.retries = 2 /\ Len(getlog) = 2
    /\ result = NoResult

\* C2: a 401/403 response ends the fetch_url call at once: it is the last
\* session.get of the call, no sleep follows it, and the call returns
\* content None with that status code, which is not the status None of
\* exhausted retries; a 401 on the first attempt means one attempt in all.
C2_AuthShortCircuit ==
    \A k \in DOMAIN getlog :
        IsAuthResponse(getlog[k].out) =>
            /\ k = Len(getlog)
            /\ pc # "fetch"
            /\ Len(sleeps) = k - 1
            /\ attempt = k - 1
            /\ result.content = None
            /\ result.status = getlog[k].out.status_code
            /\ result # NoResult
            /\ (IsAuthResponse(getlog[1].out) => Len(getlog) = 1)

C2_Witness ==
    /\ pc = "returned"
    /\ Len(getlog) = 1
    /\ getlog[1].out.status_code = 401
    /\ result.status = 401 /\ result.content = None
    /\ sleeps = <<>>

---------------------------------------------------------------------------
(* Properties of the run driver *)

\* the driver has left the job loop
ProcessedAll == (pc = "loop" /\ LoopDone) \/ pc \in {"done", "crashed"}

Terminated == pc \in {"done", "crashed"}

\* a job whose fetch ended in Success(content, 200, headers)
Succeeded(e) == e.status = 200

ErrorsFor(b, p) ==
    {k \in DOMAIN errors : errors[k].build = b /\ errors[k].platform = p}
FailedJobs(b, p) ==
    {k \in DOMAIN joblog :
        joblog[k].build = b /\ joblog[k].platform = p /\ ~Succeeded(joblog[k])}

SeqRange(q) == {q[k] : k \in DOMAIN q}

\* C3: once the driver has processed all jobs, the error list holds one
\* ErrorRecord per job whose fetch did not end in Success (as many records
\* for a (build, platform) as jobs of that pair failed, none when they all
\* succeeded), each carrying the job's build, platform and target URL.
C3_ErrorAccounting ==
    ProcessedAll =>
        /\ Len(joblog) = NumJobs(args)
        /\ \A b \in SeqRange(args.builds), p \in SeqRange(args.platforms) :
              Cardinality(ErrorsFor(b, p)) = Cardinality(FailedJobs(b, p))
        /\ \A k \in DOMAIN errors :
              /\ errors[k].build \in SeqRange(args.builds)
              /\ errors[k].platform \in SeqRange(args.platforms)
              /\ errors[k].url =
                    build_target_url(args.base_url, errors[k].build,
                                     errors[k].platform)

C3_Witness ==
    /\ ProcessedAll
    /\ NumJobs(args) = 4
    /\ Len(errors) = 1
    /\ errors[1].build = B2 /\ errors[1].platform = PW
    /\ joblog[3].status = 403

AllSucceeded == \A k \in DOMAIN joblog : Succeeded(joblog[k])

\* C4: a run whose arguments parse terminates with exit code 0 iff all jobs
\* succeeded; otherwise the error list is in {out}/fetch_errors.json and the
\* exit code is 2, also when every job failed and the output root did not
\* exist before the run.
C4_ExitStatus ==
    Terminated =>
        /\ (exit_code = Exited(0)) <=> AllSucceeded
        /\ ~AllSucceeded =>
              /\ Exists(fs, ErrPath)
              /\ fs[ErrPath] = errors
              /\ exit_code = Exited(2)

SummaryPrinted == summary # None

AllJobsStarted ==
    /\ Len(started) = NumJobs(args)
    /\ SeqRange(started) = JobIdx(args)

\* C5: whatever the outcome of the earlier jobs, the summary is printed and
\* the exit status decided only after the driver has attempted every job of
\* builds x platforms, and a run that is not terminated from outside gets
\* there.
C5_AllJobsAttempted ==
    /\ [](SummaryPrinted => AllJobsStarted)
    /\ <>(killed \/ (SummaryPrinted /\ AllJobsStarted))

C5_Witness ==
    /\ SummaryPrinted /\ AllJobsStarted
    /\ NumJobs(args) = 4
    /\ joblog[1].status = 401
    /\ joblog[2].status = StatusNone
    /\ joblog[4].status = 200

---------------------------------------------------------------------------
(* Properties of the credentials *)

TokenSet == token # None /\ token # <<>>
PairSupplied ==
    /\ args.user # None /\ args.user # <<>>
    /\ args.password # None /\ args.password # <<>>

HasBearer(r) ==
    /\ "Authorization" \in DOMAIN r.headers
    /\ r.headers["Authorization"] = <<"Bearer", token>>
NoAuthHeader(r) == "Authorization" \notin DOMAIN r.headers

\* C6: with ARTIFACTORY_TOKEN set every request carries the Bearer header and
\* no Basic auth, even when --user and --password are given; otherwise, with
\* both --user and --password, every request uses Basic auth and no Bearer
\* header; otherwise requests carry no credentials.  The warning is printed
\* once, at startup, iff the run goes on without credentials.
C6_AuthResolution ==
    /\ \A k \in DOMAIN getlog :
          IF TokenSet THEN HasBearer(getlog[k]) /\ getlog[k].auth = None
          ELSE IF PairSupplied
               THEN /\ getlog[k].auth = <<args.user, args.password>>
                    /\ NoAuthHeader(getlog[k])
               ELSE getlog[k].auth = None /\ NoAuthHeader(getlog[k])
    /\ warnings = IF pc # "start" /\ ~TokenSet /\ ~PairSupplied THEN 1 ELSE 0

C6_Witness ==
    /\ TokenSet /\ PairSupplied
    /\ Len(getlog) = 2
    /\ HasBearer(getlog[2]) /\ getlog[2].auth = None

\* the warning stays at one over several unauthenticated requests
C6_WarnOnceWitness ==
    /\ ~TokenSet /\ ~PairSupplied
    /\ Len(getlog) = 2
    /\ warnings = 1

---------------------------------------------------------------------------
(* Properties of the output directory *)

HasBody(b, p) == Exists(fs, LocalPath(b, p))
HasMeta(b, p) == Exists(fs, <<b, p, "meta.json">>)

StartedEmpty == fs0 = EmptyFS

\* C7 as stated: in a run that started with an empty output directory, at
\* whatever point the process is terminated, every job directory holds both
\* latest_commits.txt and meta.json or neither.
C7_BothOrNeitherAsStated ==
    StartedEmpty =>
        \A j \in JobIdx(args) :
            HasBody(args.builds[j[1]], args.platforms[j[2]])
                <=> HasMeta(args.builds[j[1]], args.platforms[j[2]])

\* C7, amended: in such a run every job directory holds both files or neither,
\* except the directory of the one job the process was persisting when it
\* stopped between the two writes, which holds latest_commits.txt alone.
C7_TerminationConsistency ==
    StartedEmpty =>
        \A j \in JobIdx(args) :
            LET b == args.builds[j[1]]
                p == args.platforms[j[2]]
            IN  \/ HasBody(b, p) <=> HasMeta(b, p)
                \/ /\ pc = "wrote_file"
                   /\ b = CurBuild /\ p = CurPlat
                   /\ HasBody(b, p) /\ ~HasMeta(b, p)

C7_Witness ==
    /\ StartedEmpty /\ killed
    /\ pc = "wrote_file"
    /\ bi = 2 /\ pi = 1
    /\ HasBody(B1, PW) /\ HasMeta(B1, PW)
    /\ HasBody(B2, PW) /\ ~HasMeta(B2, PW)
    /\ ~HasBody(B1, PL) /\ ~HasMeta(B1, PL)

JustPersisted ==
    /\ pc = "loop"
    /\ joblog # <<>>
    /\ joblog[Len(joblog)].persisted

LastJob == joblog[Len(joblog)]

\* the job directory held both files before the last job ran: left by an
\* earlier run, or by an earlier job of this run with the same identifiers
RanBefore(b, p) ==
    \/ Exists(fs0, LocalPath(b, p)) /\ Exists(fs0, <<b, p, "meta.json">>)
    \/ \E k \in 1 .. (Len(joblog) - 1) :
          joblog[k].build = b /\ joblog[k].platform = p /\ joblog[k].persisted

\* C8: after a successful job has been run again, its directory holds exactly
\* latest_commits.txt and meta.json, the body is the body of the latest fetch
\* and meta.json is the MetaRecord of the latest fetch, newer than the one it
\* replaces.
C8_RerunOverwrites ==
    (JustPersisted /\ RanBefore(LastJob.build, LastJob.platform)) =>
        LET b == LastJob.build
            p == LastJob.platform
            m == <<b, p, "meta.json">>
        IN  /\ FilesIn(fs, b, p) = {"latest_commits.txt", "meta.json"}
            /\ fs[LocalPath(b, p)] = LastGet.text
            /\ fs[m] = MetaRecord(b, p, clock - 1,
                                  build_target_url(args.base_url, b, p))
            /\ Exists(fs0, m) => fs0[m].fetched_at < fs[m].fetched_at
            /\ \A q \in DOMAIN fs :
                  (q[3] = "meta.json" /\ q # m) =>
                      fs[q].fetched_at < fs[m].fetched_at

C8_Witness ==
    /\ JustPersisted
    /\ LastJob.build = B1 /\ LastJob.platform = PW
    /\ Exists(fs0, LocalPath(B1, PW))
    /\ fs0[LocalPath(B1, PW)] = OldBody
    /\ fs[LocalPath(B1, PW)] = <<"a">>
    /\ fs[<<B1, PW, "meta.json">>].fetched_at > fs0[<<B1, PW, "meta.json">>].fetched_at

Got200Empty ==
    /\ getlog # <<>>
    /\ ~LastGet.exc
    /\ LastGet.status_code = 200
    /\ LastGet.text = <<>>

\* C9: a job whose fetch got HTTP 200 with an empty body is persisted like any
\* other success: the driver writes an empty latest_commits.txt, then
\* meta.json, adds one to the success count and adds no ErrorRecord.
C9_EmptyBodyIsSuccess ==
    [][ (Got200Empty /\ ~killed') =>
          CASE pc = "returned" ->
                 /\ pc' = "wrote_file"
                 /\ errors' = errors
                 /\ success_count' = success_count
                 /\ Exists(fs', LocalPath(CurBuild, CurPlat))
                 /\ fs'[LocalPath(CurBuild, CurPlat)] = <<>>
            [] pc = "wrote_file" ->
                 /\ pc' = "loop"
                 /\ errors' = errors
                 /\ success_count' = success_count + 1
                 /\ Exists(fs', <<CurBuild, CurPlat, "meta.json">>)
                 /\ fs'[LocalPath(CurBuild, CurPlat)] = <<>>
            [] OTHER -> TRUE ]_vars

C9_Witness ==
    /\ Got200Empty
    /\ JustPersisted
    /\ fs[LocalPath(LastJob.build, LastJob.platform)] = <<>>
    /\ HasMeta(LastJob.build, LastJob.platform)
    /\ success_count = 1
    /\ errors = <<>>

---------------------------------------------------------------------------
(* build_target_url on its own: lines 45-47 *)

Slashes(n) == [k \in 1 .. n |-> "/"]

UrlCores == {<<>>, <<"h">>, <<"h", "/", "a">>}
UrlBuilds == {<<>>, <<"1">>, <<"3", "0">>}
UrlPlatforms == {<<"w">>, <<"l", "x">>}

UrlInit ==
    /\ \E c \in UrlCores, n \in 0 .. MaxSlashes, b \in UrlBuilds,
          p \in UrlPlatforms :
          args = [base_url |-> c \o Slashes(n), builds |-> <<b>>,
                  platforms |-> <<p>>, retries |-> 0, user |-> None,
                  password |-> None]
    /\ token = None
    /\ fs = EmptyFS /\ dirs = {} /\ fs0 = EmptyFS
    /\ pc = "url"
    /\ killed = FALSE
    /\ headers = NoHeaders
    /\ auth = None
    /\ base_url = <<>>
    /\ warnings = 0
    /\ errors = <<>>
    /\ success_count = 0
    /\ bi = 1
    /\ pi = 1
    /\ target_url = <<>>
    /\ attempt = 0
    /\ result = NoResult
    /\ exit_code = NotExited
    /\ summary = None
    /\ getlog = <<>>
    /\ sleeps = <<>>
    /\ clock = 1
    /\ joblog = <<>>
    /\ started = <<>>

CallBuildTargetUrl ==
    /\ pc = "url"
    /\ target_url' = build_target_url(args.base_url, CurBuild, CurPlat)
    /\ pc' = "url_done"
    /\ UNCHANGED <<args, token, killed, headers, auth, base_url, warnings,
                   errors, success_count, bi, pi, attempt, result, fs, dirs,
                   exit_code, summary, getlog, sleeps, clock, joblog, started,
                   fs0>>

UrlNext == CallBuildTargetUrl

UrlSpec == UrlInit /\ [][UrlNext]_vars

\* the length of the base without its trailing slashes: the one prefix that
\* does not end in "/" and is followed by slashes only
CoreLen(base) ==
    CHOOSE n \in 0 .. Len(base) :
        /\ n = 0 \/ base[n] # "/"
        /\ \A i \in (n + 1) .. Len(base) : base[i] = "/"

EndsWith(s, t) ==
    /\ Len(s) >= Len(t)
    /\ SubSeq(s, Len(s) - Len(t) + 1, Len(s)) = t

\* C10: build_target_url(base, b, p) is the base without its trailing slashes,
\* then "/", b, "/", p and "/latest_commits.txt": one "/" between the segments,
\* the file name at the end, and the same URL for the base with one more
\* trailing slash.
C10_UrlBuilder ==
    pc = "url_done" =>
        LET base == args.base_url
            core == SubSeq(base, 1, CoreLen(base))
        IN  /\ target_url =
                  core \o <<"/">> \o CurBuild \o <<"/">> \o CurPlat \o FileName
            /\ EndsWith(target_url, FileName)
            /\ target_url =
                  build_target_url(base \o <<"/">>, CurBuild, CurPlat)
            /\ target_url = build_target_url(core, CurBuild, CurPlat)

C10_Witness ==
    /\ pc = "url_done"
    /\ args.base_url = <<"h", "/", "a", "/", "/">>
    /\ target_url = <<"h", "/", "a", "/", "3", "0", "/", "w">> \o FileName

---------------------------------------------------------------------------
(* Order of the jobs *)

\* builds x platforms in the order of the claim: builds outer, platforms inner
JobOrder(a) ==
    [k \in 1 .. NumJobs(a) |->
        <<((k - 1) \div Len(a.platforms)) + 1,
          ((k - 1) % Len(a.platforms)) + 1>>]

IsPrefix(q, t) ==
    /\ Len(q) <= Len(t)
    /\ \A k \in DOMAIN q : q[k] = t[k]

\* the number of failed jobs among the first k finished jobs
FailRank(k) == Cardinality({m \in 1 .. k : ~joblog[m].persisted})

\* C11: the jobs are started one at a time in the order builds outer,
\* platforms inner; while a job is being fetched every earlier job has
\* reached its terminal state (both files written, or its ErrorRecord
\* appended), and the ErrorRecords are in the order of their jobs.
C11_JobOrdering ==
    /\ IsPrefix(started, JobOrder(args))
    /\ Len(joblog) <= Len(started)
    /\ Len(started) <= Len(joblog) + 1
    /\ (pc \in {"fetch", "returned", "wrote_file"}) =>
          Len(joblog) = Len(started) - 1
    /\ \A k \in DOMAIN getlog :
          getlog[k].url =
              build_target_url(args.base_url,
                               args.builds[started[Len(started)][1]],
                               args.platforms[started[Len(started)][2]])
    /\ \A k \in DOMAIN joblog :
          /\ joblog[k].build = args.builds[JobOrder(args)[k][1]]
          /\ joblog[k].platform = args.platforms[JobOrder(args)[k][2]]
          /\ IF joblog[k].persisted
             THEN /\ HasBody(joblog[k].build, joblog[k].platform)
                  /\ HasMeta(joblog[k].build, joblog[k].platform)
             ELSE /\ FailRank(k) <= Len(errors)
                  /\ errors[FailRank(k)].build = joblog[k].build
                  /\ errors[FailRank(k)].platform = joblog[k].platform
    /\ Len(errors) = FailRank(Len(joblog))

C11_Witness ==
    /\ ProcessedAll
    /\ NumJobs(args) = 4
    /\ started = <<<<1, 1>>, <<1, 2>>, <<2, 1>>, <<2, 2>>>>
    /\ Len(errors) = 2
    /\ errors[1].build = B1 /\ errors[1].platform = PL
    /\ errors[2].build = B2 /\ errors[2].platform = PW

---------------------------------------------------------------------------
(* The backoff schedule *)

\* a / b < c / d for fractions <<a, b>>, <<c, d>> with positive denominators
FracLess(x, y) == x[1] * y[2] < y[1] * x[2]

TransientGets == {k \in DOMAIN getlog : Transient(getlog[k].out)}

\* C12: within one fetch_url call the sleep after the k-th transient failure
\* lasts 1.5^k = 3^k / 2^k seconds, the successive sleeps are strictly
\* increasing, and the attempt counter counts the transient failures and
\* nothing else.
C12_BackoffSchedule ==
    /\ \A k \in DOMAIN sleeps :
          /\ sleeps[k][1] * (2 ^ k) = (3 ^ k) * sleeps[k][2]
          /\ sleeps[k][2] > 0
          /\ k > 1 => FracLess(sleeps[k - 1], sleeps[k])
    /\ attempt = Cardinality(TransientGets)
    /\ Len(sleeps) = attempt

C12_Witness ==
    /\ pc = "returned"
    /\ Len(getlog) = 2
    /\ getlog[1].out.exc /\ getlog[2].out.status_code = 500
    /\ attempt = 2
    /\ sleeps = <<<<3, 2>>, <<9, 4>>>>

\* C13: every backoff sleep of a fetch_url call is followed by another
\* network attempt of that call; after the last allowed attempt has failed
\* transiently the call returns without a further sleep, so a call with
\* `retries` transient failures sleeps retries - 1 times.
C13_SleepOnlyBeforeRetry ==
    pc = "returned" =>
        /\ \A k \in DOMAIN sleeps : k < Len(getlog)
        /\ (result = NoResult /\ args.retries > 0) =>
              Len(sleeps) = args.retries - 1

---------------------------------------------------------------------------
(* Terminal states of a job *)

\* the driver has just put the last job into its terminal state; getlog is
\* still the log of that job's fetch
JustFinished == pc = "loop" /\ joblog # <<>>

Got200 == \E k \in DOMAIN getlog : ~getlog[k].out.exc /\ getlog[k].out.status_code = 200
EndedOnAuth == getlog # <<>> /\ IsAuthResponse(LastGet)
AllAttemptsTransient == AllTransient /\ Len(getlog) = Max(args.retries, 0)

LastError == errors[Len(errors)]

\* the terminal state the driver gave the last job
Persisted == LastJob.persisted
AuthFailed ==
    /\ ~LastJob.persisted
    /\ errors # <<>>
    /\ LastError.build = LastJob.build /\ LastError.platform = LastJob.platform
    /\ LastError.error[1] = "AUTH ERROR"
    /\ LastError.error = <<"AUTH ERROR", LastJob.status, "fetching", LastError.url>>
RetriesExhausted ==
    /\ ~LastJob.persisted
    /\ errors # <<>>
    /\ LastError.build = LastJob.build /\ LastError.platform = LastJob.platform
    /\ LastError.error[1] = "FAILED to fetch"
    /\ LastError.error =
          <<"FAILED to fetch", LastError.url, "after", args.retries, "attempts">>

ExactlyOne(a, b, c) ==
    (a /\ ~b /\ ~c) \/ (~a /\ b /\ ~c) \/ (~a /\ ~b /\ c)

\* C14: a job goes from pending through fetching to exactly one of Persisted,
\* AuthFailed and RetriesExhausted: Persisted iff its fetch got a 200,
\* AuthFailed iff its fetch ended on a 401/403 (also after transient
\* failures), RetriesExhausted iff all allowed attempts failed transiently;
\* the "AUTH ERROR <status>" message goes with AuthFailed and the
\* "FAILED to fetch ... after <retries> attempts" message with
\* RetriesExhausted.
C14_TerminalStates ==
    /\ (pc \in {"fetch", "returned", "wrote_file"}) =>
          Len(joblog) < Len(started)
    /\ JustFinished =>
          /\ Len(joblog) = Len(started)
          /\ ExactlyOne(Persisted, AuthFailed, RetriesExhausted)
          /\ Persisted <=> Got200
          /\ AuthFailed <=> EndedOnAuth
          /\ RetriesExhausted <=> AllAttemptsTransient
          /\ AuthFailed => LastJob.status = LastGet.status_code

C14_Witness ==
    /\ JustFinished
    /\ Len(getlog) = 2
    /\ Transient(getlog[1].out)
    /\ getlog[2].out.status_code = 403
    /\ AuthFailed
    /\ LastError.error[2] = 403

---------------------------------------------------------------------------
(* Counters of the driver *)

\* the jobs the loops have left behind, from the loop positions alone
JobsProcessed == (bi - 1) * Len(args.platforms) + (pi - 1)

PersistedJobs == {k \in DOMAIN joblog : joblog[k].persisted}

\* C15: at every point of the driver loop success_count + len(errors) is the
\* number of jobs processed so far, success_count is the number of jobs that
\* were persisted, and the summary reports counts that add up to
\* |builds| x |platforms|, repeated identifiers counted as separate jobs.
C15_AggregateAccounting ==
    /\ success_count + Len(errors) = JobsProcessed
    /\ success_count = Cardinality(PersistedJobs)
    /\ success_count = clock - 1
    /\ SummaryPrinted =>
          /\ summary = <<success_count, Len(errors)>>
          /\ summary[1] + summary[2] = Len(args.builds) * Len(args.platforms)

C15_Witness ==
    /\ SummaryPrinted
    /\ args.builds = <<B1, B1>> /\ args.platforms = <<PW, PL>>
    /\ summary = <<3, 1>>
    /\ success_count = 3
    /\ Len(errors) = 1
    /\ errors[1].error[2] = 403
    /\ exit_code = Exited(2)

---------------------------------------------------------------------------
(* Termination of fetch_url *)

Is200(o) == ~o.exc /\ o.status_code = 200

AttemptsBounded == Len(getlog) <= Max(args.retries, 0)

ReturnsFirst200 ==
    \A k \in DOMAIN getlog :
        Is200(getlog[k].out) =>
            /\ k = Len(getlog)
            /\ k <= args.retries
            /\ pc # "fetch"
            /\ \A m \in 1 .. (k - 1) : Transient(getlog[m].out)
            /\ attempt = k - 1
            /\ result = [content |-> getlog[k].out.text, status |-> 200,
                          headers |-> getlog[k].out.headers]

\* C16: for every sequence of server outcomes and every integer `retries`,
\* zero and negative included, a fetch_url call makes at most max(retries, 0)
\* network attempts and returns; when attempt k is the first to get a 200 it
\* returns that response's body, status and headers after exactly k attempts,
\* whatever the k - 1 transient failures before it.
C16_BoundedFetch ==
    /\ [](AttemptsBounded /\ ReturnsFirst200)
    /\ (pc = "fetch") ~> (killed \/ pc = "returned")

C16_Witness ==
    /\ pc = "returned"
    /\ args.retries = 2
    /\ Len(getlog) = 2
    /\ getlog[1].out.exc
    /\ Is200(getlog[2].out)
    /\ result.content = <<"a">> /\ result.status = 200

\* a call with a negative limit returns without any attempt
C16_NegativeWitness ==
    /\ pc = "returned"
    /\ args.retries = -1
    /\ getlog = <<>>
    /\ result = NoResult

---------------------------------------------------------------------------
(* What the run leaves alone *)

\* C17: the body is written before meta.json, so in a run that started with
\* an empty output directory a meta.json never exists without the
\* latest_commits.txt beside it, whenever the process stops; a body without
\* meta.json is the only inconsistency there is.
C17_MetaImpliesBody ==
    StartedEmpty =>
        \A q \in DOMAIN fs :
            q[3] = "meta.json" =>
                /\ <<q[1], q[2], "latest_commits.txt">> \in DOMAIN fs
                /\ \E j \in JobIdx(args) :
                      q[1] = args.builds[j[1]] /\ q[2] = args.platforms[j[2]]

C17_Witness ==
    /\ StartedEmpty /\ ~killed
    /\ pc = "wrote_file"
    /\ bi = 1 /\ pi = 2
    /\ HasBody(B1, PW) /\ HasMeta(B1, PW)
    /\ HasBody(B1, PL) /\ ~HasMeta(B1, PL)

\* the files of one job directory with their content
DirContent(f, b, p) ==
    [q \in {r \in DOMAIN f : r[1] = b /\ r[2] = p} |-> f[q]]

PersistedHere(b, p) ==
    \E k \in DOMAIN joblog :
        joblog[k].build = b /\ joblog[k].platform = p /\ joblog[k].persisted

BeingPersisted(b, p) ==
    pc = "wrote_file" /\ CurBuild = b /\ CurPlat = p

\* a directory none of whose jobs got a 200 in this run is as the run found it
FailedDirsUntouched ==
    \A j \in JobIdx(args) :
        LET b == args.builds[j[1]]
            p == args.platforms[j[2]]
        IN  (~PersistedHere(b, p) /\ ~BeingPersisted(b, p)) =>
                DirContent(fs, b, p) = DirContent(fs0, b, p)

\* a step of a fetch, or of the handling of a failed fetch
FailingStep ==
    \/ pc = "fetch"
    \/ pc = "returned" /\ result.content = None

\* C18: a job that ends in AuthFailed or RetriesExhausted creates, modifies
\* and deletes nothing under its directory: no step of its fetch or of its
\* failure handling changes a file or a directory, and a latest_commits.txt
\* and meta.json left by an earlier run are still there with their old
\* content after a run in which the job failed.
C18_FailedJobLeavesDir ==
    /\ []FailedDirsUntouched
    /\ [][FailingStep => (fs' = fs /\ dirs' = dirs)]_vars

C18_Witness ==
    /\ JustFinished
    /\ ~LastJob.persisted
    /\ LastJob.build = B1 /\ LastJob.platform = PW
    /\ Exists(fs0, LocalPath(B1, PW))
    /\ fs[LocalPath(B1, PW)] = OldBody
    /\ fs[<<B1, PW, "meta.json">>].fetched_at = 0

ErrFileAsFound ==
    /\ Exists(fs, ErrPath) <=> Exists(fs0, ErrPath)
    /\ Exists(fs, ErrPath) => fs[ErrPath] = fs0[ErrPath]

ErrFileTouched ==
    \/ Exists(fs, ErrPath) # Exists(fs', ErrPath)
    \/ Exists(fs, ErrPath) /\ Exists(fs', ErrPath) /\ fs[ErrPath] # fs'[ErrPath]

\* C19: fetch_errors.json is written at most once per run, by the last step
\* of the run, after all jobs have been processed and only when the error
\* list is not empty; until then, and in a run that exits with code 0, the
\* file is as the run found it, so an errors file of an earlier failing run
\* outlives a later successful run.
C19_ErrorsFileOnlyOnFailure ==
    /\ []((pc # "done" \/ exit_code = Exited(0)) => ErrFileAsFound)
    /\ [][ErrFileTouched =>
            /\ pc = "loop" /\ LoopDone
            /\ Len(joblog) = NumJobs(args)
            /\ errors # <<>>
            /\ pc' = "done"
            /\ fs'[ErrPath] = errors]_vars

C19_Witness ==
    /\ pc = "done"
    /\ exit_code = Exited(0)
    /\ Exists(fs0, ErrPath)
    /\ Exists(fs, ErrPath)
    /\ fs[ErrPath] = OldErrors(args)
    /\ NumJobs(args) = 2

====
